---- MODULE Spec2Model ----
(***************************************************************************)
(* Soccer Bingo (src/soccer_bingo.py): the Streamlit session state of the  *)
(* bingo builder (bingo_choices, bingo_board, marked, bingo), the button   *)
(* handlers of one script run, and the win detector check_bingo.           *)
(*                                                                         *)
(* Python lists are 0-indexed; sequences here are 1-indexed, so Python     *)
(* marked[i] is marked[i + 1].  A session_state key that is not set is the *)
(* empty sequence (bingo_board, marked) or FALSE (bingo, read only through *)
(* st.session_state.get("bingo"), for which absent and False are both      *)
(* falsy).                                                                 *)
(*                                                                         *)
(* Three specifications share the variables and the handlers:              *)
(*   Spec       the session as played: short choice lists, the toggle      *)
(*              buttons of the main diagonal, the win notification;        *)
(*   SpecBuild  the session as built: choice lists up to the limit of 24,  *)
(*              repeated labels, board generation;                         *)
(*   SpecWin    check_bingo as a pure function of vectors of any length.   *)
(***************************************************************************)
EXTENDS Integers, Sequences, FiniteSets, TLC

VARIABLES
    bingo_choices,  \* st.session_state.bingo_choices: list of square labels
    bingo_board,    \* st.session_state.bingo_board: 25 labels, <<>> when not set
    marked,         \* st.session_state.marked: 25 booleans, <<>> when not set
    bingo,          \* st.session_state["bingo"]: the one-shot notification flag
    pc,             \* "idle", "rerun" (st.rerun() pending), "stopped" (st.stop())
    dialog,         \* TRUE iff the last script run called bingo_dialog()
    winDetected,    \* outcome of the check_bingo call of the last run, else "none"
    last,           \* the interaction the last script run served
    toggles         \* toggle clicks served since the board was generated,
                    \* counted up to MaxToggleCount (history)

vars == <<bingo_choices, bingo_board, marked, bingo, pc, dialog, winDetected, last, toggles>>

----------------------------------------------------------------------------
(* Program constants *)

\* range(0, 25, 5), range(5): the grid is 5 x 5
GridSide == 5

\* [False] * 25
BoardCells == 25

\* total_needed = 25 - 1
total_needed == BoardCells - 1

\* bingo_lines.insert(12, ...), marked[12] = True
FreeIndex == 12

\* the label of the free square (the source's label without its two star emoji)
FREE_SQUARE == "FREE SQUARE"

\* bingo_lines.append("")
PLACEHOLDER == ""

----------------------------------------------------------------------------
(* Bounds of the model *)

\* check_bingo is applied to vectors of length 0 .. MaxVecLen
MaxVecLen == 26

\* vectors of length 25 with at most MaxTrue true entries
MaxTrue == 5

\* vectors of any other length with at most MaxShortTrue true entries
MaxShortTrue == 4

\* vectors of any length with at most MaxFalse false entries
MaxFalse == 2

----------------------------------------------------------------------------
(* check_bingo, lines 158-192 *)

Min(a, b) == IF a <= b THEN a ELSE b

\* Python s[lo:hi] for 0 <= lo <= hi: the slice is clipped to the list
Slice(s, lo, hi) == SubSeq(s, Min(lo, Len(s)) + 1, Min(hi, Len(s)))

\* grid = [marked[i:i+5] for i in range(0, 25, 5)]; grid[r] is grid(marked)[r + 1]
grid(m) == [r \in 1..GridSide |-> Slice(m, GridSide * (r - 1), GridSide * (r - 1) + GridSide)]

\* all(row): true of the empty row
all_row(row) == \A k \in 1..Len(row) : row[k]

\* (grid[r][c] for r in range(5)): the cells <<r, c>> in the order they are read
col_cells(c) == [k \in 1..GridSide |-> <<k - 1, c>>]

\* (grid[i][i] for i in range(5))
diag_cells == [k \in 1..GridSide |-> <<k - 1, k - 1>>]

\* a detector that reads grid[i][i] twice and never the anti-diagonal
anti_diag_cells_same == [k \in 1..GridSide |-> <<k - 1, k - 1>>]

\* (grid[i][4 - i] for i in range(5))
anti_diag_cells == [k \in 1..GridSide |-> <<k - 1, 4 - (k - 1)>>]

\* all(<generator>): the generator is consumed lazily, so all() stops at the
\* first false cell, and a cell past the end of its row raises IndexError
RECURSIVE all_cells(_, _, _)
all_cells(g, cells, k) ==
    IF k > Len(cells) THEN "True"
    ELSE LET row == g[cells[k][1] + 1]
             c   == cells[k][2]
         IN  IF c >= Len(row) THEN "IndexError"
             ELSE IF ~row[c + 1] THEN "False"
             ELSE all_cells(g, cells, k + 1)

\* the generator checks in program order: columns 0..4, diagonal, anti-diagonal
line_checks == [c \in 1..GridSide |-> col_cells(c - 1)] \o <<diag_cells, anti_diag_cells>>

RECURSIVE scan_lines(_, _)
scan_lines(g, k) ==
    IF k > Len(line_checks) THEN "False"
    ELSE LET o == all_cells(g, line_checks[k], 1)
         IN  IF o = "False" THEN scan_lines(g, k + 1) ELSE o

\* a detector that skips the first row: for row in grid[1:]
any_row_some_cell(g) == \E r \in 1..GridSide : \E k \in 1..Len(g[r]) : g[r][k]

any_row_full_skip_first(g) == \E r \in 2..GridSide : all_row(g[r])

\* for row in grid: if all(row): return True
any_row_full(g) == \E r \in 1..GridSide : all_row(g[r])

\* the outcome of check_bingo(marked): "True", "False" or "IndexError"
check_bingo(m) ==
    LET g == grid(m)
    IN  IF any_row_full(g) THEN "True" ELSE scan_lines(g, 1)

----------------------------------------------------------------------------
(* Bounds of the session model *)

\* SpecBuild: an add may repeat a label of the list while the list has at
\* most MaxDupLen entries
MaxDupLen == 1

\* random.shuffle is drawn from the rotations by 0 .. MaxShift places
MaxShift == 1

\* SpecBuild: the toggle buttons clicked are those of the first
\* MaxBuildToggles cells of ToggleOrder
MaxBuildToggles == 1

\* Spec: the toggle buttons clicked are those of the first MaxToggleCells
\* cells of ToggleOrder
MaxToggleCells == 6

\* Spec: adds are tried while the list has fewer than MaxPlayChoices entries
MaxPlayChoices == 2

\* toggles counts the toggle clicks up to MaxToggleCount and stays there
MaxToggleCount == 5

----------------------------------------------------------------------------
(* The square builder, lines 256-309 *)

\* f"{chosen_subject} {chosen_event}" for the subjects and events the three
\* select boxes offer: players x PLAYER_EVENTS, teams x TEAM_EVENTS, the
\* fixture label x GAME_EVENTS (an excerpt of each vocabulary)
SquareLabels == <<
    "Saka 2 shots", "Saka 3 shots", "Saka 4+ shots",
    "Saka 1 SoT", "Saka 2+ SoT", "Saka anytime assist",
    "Rice 2 shots", "Rice 3 shots", "Rice 4+ shots",
    "Rice 1 SoT", "Rice 2+ SoT", "Rice anytime assist",
    "Arsenal 8+ shots", "Arsenal 10+ shots", "Arsenal 2+ goals",
    "Arsenal 4 corners", "Arsenal 5+ corners", "Chelsea 8+ shots",
    "Chelsea 10+ shots", "Chelsea 2+ goals", "Chelsea 4 corners",
    "Chelsea 5+ corners", "Arsenal vs Chelsea 3 goals", "Arsenal vs Chelsea 4+ goals",
    "Arsenal vs Chelsea penalty goal", "Arsenal vs Chelsea own goal"
>>

Range(s) == {s[i] : i \in 1..Len(s)}

\* every label the builder can produce: the pool a board could be filled from
AutoFillPool == Range(SquareLabels)

HasDuplicate(s) == \E i, j \in 1..Len(s) : i < j /\ s[i] = s[j]

\* the labels an add is tried with on a list shorter than maxLen: the next
\* label of SquareLabels, or (on a list of at most dupLen entries) a label
\* already in the list; a list that holds a label twice is not added to
AddInputs(maxLen, dupLen) ==
    IF HasDuplicate(bingo_choices) \/ Len(bingo_choices) >= maxLen THEN {}
    ELSE {SquareLabels[Len(bingo_choices) + 1]}
         \cup (IF Len(bingo_choices) <= dupLen THEN Range(bingo_choices) ELSE {})

\* the cells whose toggle buttons are clicked: the main diagonal first, then
\* the anti-diagonal, then row 0
ToggleOrder == <<0, 6, 18, 24, 12, 4, 8, 16, 20, 1, 2, 3>>

ToggleCells(n) == {ToggleOrder[k] : k \in 1..n}

----------------------------------------------------------------------------
(* Python list operations used by the handlers *)

\* a slice that is one entry short: s[:n - 1]
Truncate_one_short(s, n) == SubSeq(s, 1, Min(n - 1, Len(s)))

\* s[:n]
Truncate(s, n) == SubSeq(s, 1, Min(n, Len(s)))

\* while len(s) < n: s.append(x)
PadTo(s, n, x) == [i \in 1..(IF Len(s) < n THEN n ELSE Len(s)) |-> IF i <= Len(s) THEN s[i] ELSE x]

\* s.insert(idx, x): idx is clipped to len(s)
Insert(s, idx, x) ==
    SubSeq(s, 1, Min(idx, Len(s))) \o <<x>> \o SubSeq(s, Min(idx, Len(s)) + 1, Len(s))

\* one outcome of random.shuffle(s): s rotated left by r places
Rotate(s, r) == SubSeq(s, r + 1, Len(s)) \o SubSeq(s, 1, r)

\* the rotations random.shuffle is drawn from
Shifts(s) == 0..Min(MaxShift, IF Len(s) = 0 THEN 0 ELSE Len(s) - 1)

----------------------------------------------------------------------------
(* The session: Init and the pieces of one script run *)

Init ==
    /\ bingo_choices = <<>>
    /\ bingo_board = <<>>
    /\ marked = <<>>
    /\ bingo = FALSE
    /\ pc = "idle"
    /\ dialog = FALSE
    /\ winDetected = "none"
    /\ last = "init"
    /\ toggles = 0

\* an append that ignores the limit of 24
can_add_always(choices) == TRUE

\* if len(st.session_state.bingo_choices) < 24
can_add(choices) == Len(choices) < 24

\* a fresh marked state without the free square
generate_marked_all_false == [i \in 1..BoardCells |-> FALSE]

\* marked = [False] * 25; marked[12] = True
generate_marked == [i \in 1..BoardCells |-> i = FreeIndex + 1]

\* a board whose free square is appended instead of inserted at 12
generate_board_free_last(shuffled) ==
    Append(PadTo(Truncate(shuffled, total_needed), total_needed, PLACEHOLDER), FREE_SQUARE)

\* bingo_lines[:24], padded with "" to 24, the free square inserted at 12
generate_board(shuffled) ==
    Insert(PadTo(Truncate(shuffled, total_needed), total_needed, PLACEHOLDER),
           FreeIndex, FREE_SQUARE)

\* add and undo handlers that rebuild an existing board from the edited list
board_after_edit_rebuilt(board, choices) ==
    IF board = <<>> THEN board ELSE generate_board(choices)

\* the add handler (305-311) and the undo handler (318-322) assign
\* bingo_choices only: the board is the one the run found
board_after_edit(board, choices) == board

\* if "marked" not in st.session_state: marked = [False] * 25; marked[12] = True
\* (in the board section, entered only if "bingo_board" is set)
render_marked(board, m) ==
    IF board # <<>> /\ m = <<>> THEN generate_marked ELSE m

\* a shuffle of the list itself instead of a copy
choices_after_generate_in_place(choices, shuffled) == shuffled

\* bingo_lines = bingo_choices.copy(); random.shuffle(bingo_lines): the list
\* in the session state is not the list that is shuffled
choices_after_generate(choices, shuffled) == choices

\* an Undo button that is created on every run
undo_button_rendered_always(choices) == TRUE

\* if st.session_state.bingo_choices: ... st.button("Undo Last")
undo_button_rendered(choices) == choices # <<>>

\* a handler that marks the cell and never unmarks it
toggled_mark_only(m, idx) == [m EXCEPT ![idx + 1] = TRUE]

\* marked = st.session_state.marked[idx]; st.session_state.marked[idx] = not marked
toggled(m, idx) == [m EXCEPT ![idx + 1] = ~m[idx + 1]]

\* a handler that checks the marks as they were before the click
checked_state_before(before, after) == before

\* check_bingo(st.session_state.marked): the marks after the assignment
checked_state(before, after) == after

\* a dialog trigger that leaves the flag set
flag_after_dialog_kept(flag) == flag

\* if st.session_state.get("bingo"): bingo_dialog(); st.session_state["bingo"] = False
flag_after_dialog(flag) == FALSE

\* the end of a script run that reaches line 426: the dialog is shown iff the
\* flag is set, and the flag is reset
EndOfRun ==
    /\ dialog' = bingo
    /\ bingo' = flag_after_dialog(bingo)
    /\ pc' = "idle"
    /\ winDetected' = "none"

----------------------------------------------------------------------------
(* The interactions: each action is one whole script run *)

\* any run in which get_todays_games() returns nothing: st.error, st.stop().
\* The click that started the run is not served; nothing below is rendered.
StopNoGames ==
    /\ pc \in {"idle", "rerun"}
    /\ pc' = "stopped"
    /\ dialog' = FALSE
    /\ winDetected' = "none"
    /\ last' = "stop"
    /\ UNCHANGED <<bingo_choices, bingo_board, marked, bingo, toggles>>

\* "Add to Board" clicked with the select boxes giving `label`
AddToBoard(label) ==
    /\ pc = "idle"
    /\ IF can_add(bingo_choices)
       THEN /\ bingo_choices' = Append(bingo_choices, label)
            /\ last' = "add"
       ELSE /\ bingo_choices' = bingo_choices
            /\ last' = "add_warning"
    /\ bingo_board' = board_after_edit(bingo_board, bingo_choices')
    /\ marked' = render_marked(bingo_board, marked)
    /\ EndOfRun
    /\ UNCHANGED toggles

\* "Undo Last" clicked.  The button is on the page if the list was not empty
\* when the last run reached line 314: the list is not empty now, or the last
\* run was the undo that emptied it.  In the run the click starts the button
\* is created, and the click served, only if the list is not empty; pop() on
\* an empty list would raise IndexError and end the run.
UndoLast ==
    /\ pc = "idle"
    /\ bingo_choices # <<>> \/ last = "undo"
    /\ marked' = render_marked(bingo_board, marked)
    /\ IF ~undo_button_rendered(bingo_choices)
       THEN /\ bingo_choices' = bingo_choices
            /\ last' = "undo_ignored"
            /\ EndOfRun
       ELSE IF bingo_choices = <<>>
       THEN /\ bingo_choices' = bingo_choices
            /\ last' = "undo_error"
            /\ dialog' = FALSE
            /\ winDetected' = "none"
            /\ UNCHANGED <<bingo, pc>>
       ELSE /\ bingo_choices' = SubSeq(bingo_choices, 1, Len(bingo_choices) - 1)
            /\ last' = "undo"
            /\ EndOfRun
    /\ bingo_board' = board_after_edit(bingo_board, bingo_choices')
    /\ UNCHANGED toggles

\* "Generate Bingo Board" clicked; random.shuffle rotates the copy by r
GenerateBoard(r) ==
    /\ pc = "idle"
    /\ r \in Shifts(bingo_choices)
    /\ bingo_board' = generate_board(Rotate(bingo_choices, r))
    /\ bingo_choices' = choices_after_generate(bingo_choices, Rotate(bingo_choices, r))
    /\ marked' = generate_marked
    /\ toggles' = 0
    /\ last' = IF marked # <<>> /\ marked # generate_marked
               THEN "generate_over_marked" ELSE "generate"
    /\ EndOfRun

\* the button check_{idx} clicked: the mark is flipped, check_bingo is called,
\* the flag is raised on a win, and st.rerun() ends the run before line 426.
\* An exception in check_bingo ends the run with no rerun.
ToggleCell(idx) ==
    /\ pc = "idle"
    /\ bingo_board # <<>>
    /\ LET m0 == render_marked(bingo_board, marked)
           m1 == toggled(m0, idx)
           won == check_bingo(checked_state(m0, m1))
       IN  /\ marked' = m1
           /\ winDetected' = won
           /\ bingo' = IF won = "True" THEN TRUE ELSE bingo
           /\ pc' = IF won = "IndexError" THEN "idle" ELSE "rerun"
           /\ last' = IF m0[idx + 1] THEN "toggle_off" ELSE "toggle_on"
    /\ dialog' = FALSE
    /\ toggles' = Min(toggles + 1, MaxToggleCount)
    /\ UNCHANGED <<bingo_choices, bingo_board>>

\* the run st.rerun() asked for: no button is clicked
Rerun ==
    /\ pc = "rerun"
    /\ marked' = render_marked(bingo_board, marked)
    /\ last' = "rerun"
    /\ EndOfRun
    /\ UNCHANGED <<bingo_choices, bingo_board, toggles>>

\* a run started by a select box (time zone, game, type, subject, event) or
\* by a click on a button that is no longer rendered: no button is clicked
Rerender ==
    /\ pc = "idle"
    /\ marked' = render_marked(bingo_board, marked)
    /\ last' = "rerender"
    /\ EndOfRun
    /\ UNCHANGED <<bingo_choices, bingo_board, toggles>>

\* The session as played: short choice lists, the toggle buttons of the main
\* diagonal
Next ==
    \/ StopNoGames
    \/ \E label \in AddInputs(MaxPlayChoices, 0) : AddToBoard(label)
    \/ UndoLast
    \/ \E r \in 0..MaxShift : GenerateBoard(r)
    \/ \E idx \in ToggleCells(MaxToggleCells) : ToggleCell(idx)
    \/ Rerun
    \/ Rerender

Spec == Init /\ [][Next]_vars

\* The session as built: choice lists up to the limit of 24 (and one add more),
\* repeated labels, few toggle buttons
NextBuild ==
    \/ StopNoGames
    \/ \E label \in AddInputs(total_needed + 1, MaxDupLen) : AddToBoard(label)
    \/ UndoLast
    \/ \E r \in 0..MaxShift : GenerateBoard(r)
    \/ \E idx \in ToggleCells(MaxBuildToggles) : ToggleCell(idx)
    \/ Rerun
    \/ Rerender

SpecBuild == Init /\ [][NextBuild]_vars

----------------------------------------------------------------------------
(* The win detector as a pure function: the input vector is drawn in Init *)
(* and varied one entry at a time; every step calls check_bingo on it      *)

Count(m, b) == Cardinality({i \in 1..Len(m) : m[i] = b})

\* the input vectors of the model: few true entries, or few false entries
InFamily(m) ==
    \/ Count(m, TRUE) <= (IF Len(m) = BoardCells THEN MaxTrue ELSE MaxShortTrue)
    \/ Count(m, FALSE) <= MaxFalse

\* the vectors of length 0 .. MaxVecLen that are all false or all true
WinInputs == {[i \in 1..n |-> b] : n \in 0..MaxVecLen, b \in BOOLEAN}

InitWin ==
    /\ bingo_choices = <<>>
    /\ bingo_board = <<>>
    /\ marked \in WinInputs
    /\ bingo = FALSE
    /\ pc = "idle"
    /\ dialog = FALSE
    /\ winDetected = "none"
    /\ last = "init"
    /\ toggles = 0

\* check_bingo(marked) on the vector as drawn
CallCheckBingo ==
    /\ winDetected = "none"
    /\ winDetected' = check_bingo(marked)
    /\ last' = "call"
    /\ UNCHANGED <<bingo_choices, bingo_board, marked, bingo, pc, dialog, toggles>>

\* the next input: entry i (0-based) is negated, then check_bingo is called on
\* the new vector.  Entries are negated in increasing order of index, which
\* builds every vector of the family once.
CallCheckBingoNext(i) ==
    /\ i \in 0..(Len(marked) - 1)
    /\ \A j \in (i + 1)..Len(marked) : marked[j] = marked[i + 1]
    /\ LET m == [marked EXCEPT ![i + 1] = ~marked[i + 1]]
       IN  /\ InFamily(m)
           /\ marked' = m
           /\ winDetected' = check_bingo(m)
    /\ last' = "call"
    /\ UNCHANGED <<bingo_choices, bingo_board, bingo, pc, dialog, toggles>>

NextWin ==
    \/ CallCheckBingo
    \/ \E i \in 0..(MaxVecLen - 1) : CallCheckBingoNext(i)

SpecWin == InitWin /\ [][NextWin]_vars

----------------------------------------------------------------------------
(* Claims about the win detector, under SpecWin *)

\* the vector of length n whose true entries are the (0-based) indices in S
Vec(n, S) == [i \in 1..n |-> (i - 1) \in S]

\* the 12 index-sets: 5 rows, 5 columns, main diagonal, anti-diagonal
WinLines ==
    {{5 * r + k : k \in 0..4} : r \in 0..4}
    \cup {{c + 5 * k : k \in 0..4} : c \in 0..4}
    \cup {{0, 6, 12, 18, 24}, {4, 8, 12, 16, 20}}

LineFull(m) == \E L \in WinLines : \A i \in L : m[i + 1]

\* C1: on every vector of exactly 25 booleans check_bingo returns true if and
\* only if one of the 12 index-sets is entirely true (and false otherwise).
C1_WinIffLineFull ==
    (winDetected # "none" /\ Len(marked) = 25)
        => winDetected = (IF LineFull(marked) THEN "True" ELSE "False")

\* C1: check_bingo was called on the vector with only the main diagonal true
C1_Witness ==
    /\ winDetected = "True"
    /\ marked = Vec(25, {0, 6, 12, 18, 24})

\* C2: on every vector whose length is not 25 check_bingo returns false and
\* raises nothing.
C2_NoWinUnlessLength25 ==
    (winDetected # "none" /\ Len(marked) # 25) => winDetected = "False"

\* C10 as stated: all 25 entries true except index 3 gives false, and all 25
\* entries true gives true.
C10_AllButThreeIsNoWin ==
    winDetected # "none"
        => /\ marked = Vec(25, (0..24) \ {3}) => winDetected = "False"
           /\ marked = Vec(25, 0..24) => winDetected = "True"

\* C10 as amended: with only indices 0, 1, 2, 4 true check_bingo returns false
\* and with index 3 true as well it returns true (row 0 complete); with all 25
\* entries true except index 3 it returns true already (rows 1-4 are
\* complete), as it does with all 25 true.
C10_RowZeroCompletes ==
    winDetected # "none"
        => /\ marked = Vec(25, {0, 1, 2, 4}) => winDetected = "False"
           /\ marked = Vec(25, {0, 1, 2, 3, 4}) => winDetected = "True"
           /\ marked = Vec(25, (0..24) \ {3}) => winDetected = "True"
           /\ marked = Vec(25, 0..24) => winDetected = "True"

\* C10: check_bingo was called on the vector with all entries but index 3 true
C10_Witness ==
    /\ winDetected = "True"
    /\ marked = Vec(25, (0..24) \ {3})

----------------------------------------------------------------------------
(* Claims about the session, under Spec and SpecBuild *)

CountIn(s, x) == Cardinality({i \in 1..Len(s) : s[i] = x})

\* the 24 cells of a board other than the center cell
NonCenter(board) == SubSeq(board, 1, FreeIndex) \o SubSeq(board, FreeIndex + 2, Len(board))

\* C3: whenever a board exists, marked[12] is true, also after a toggle of
\* cell 12.
C3_FreeCellAlwaysMarked ==
    bingo_board # <<>> => (Len(marked) = 25 /\ marked[12 + 1])

\* C4: right after Generate Board the board has 25 entries with the free
\* square at index 12, the marked state is 25 booleans of which only index 12
\* is true, and the other 24 cells hold exactly the entries of the choice list
\* plus placeholders: nothing of an earlier board or marked state is left.
C4_GenerateReplacesBoard ==
    last \in {"generate", "generate_over_marked"}
        => /\ Len(bingo_board) = 25
           /\ bingo_board[12 + 1] = FREE_SQUARE
           /\ Len(marked) = 25
           /\ \A i \in 0..24 : marked[i + 1] = (i = 12)
           /\ \A x \in Range(NonCenter(bingo_board)) \cup Range(bingo_choices) :
                  CountIn(NonCenter(bingo_board), x)
                      = CountIn(bingo_choices, x)
                        + (IF x = PLACEHOLDER THEN 24 - Len(bingo_choices) ELSE 0)

\* C4: a board was generated from a non-empty list over an earlier board that
\* had marks of its own
C4_Witness ==
    /\ last = "generate_over_marked"
    /\ bingo_choices # <<>>
    /\ bingo_board # <<>>

\* C5: no step makes the choice list longer than 24, and an add on a list of
\* 24 entries leaves the list as it was.
C5_AddNeverExceeds24 ==
    [][/\ Len(bingo_choices') <= 24
       /\ (Len(bingo_choices) = 24 /\ last' \in {"add", "add_warning"})
              => bingo_choices' = bingo_choices]_vars

\* C5: an add was tried on a list of 24 entries
C5_Witness ==
    /\ last = "add_warning"
    /\ Len(bingo_choices) = 24

\* C6: the choice list never holds a label twice.
C6_NoLabelTwice ==
    \A i, j \in 1..Len(bingo_choices) : bingo_choices[i] = bingo_choices[j] => i = j

\* C7: when the choice list and the pool together hold at least 24 distinct
\* labels, no two cells of the board hold the same label other than the free
\* square's.
C7_BoardLabelsDistinct ==
    (bingo_board # <<>> /\ Cardinality(Range(bingo_choices) \cup AutoFillPool) >= 24)
        => \A i, j \in 1..Len(bingo_board) :
               (bingo_board[i] = bingo_board[j] /\ bingo_board[i] # FREE_SQUARE) => i = j

\* C8: a placeholder is on the board only if every label of the pool is on
\* the board.
C8_PlaceholderOnlyWhenPoolExhausted ==
    (bingo_board # <<>> /\ PLACEHOLDER \in Range(bingo_board))
        => AutoFillPool \subseteq Range(bingo_board)

\* C9: the dialog is shown only by the run that follows a toggle which
\* completed a line, and showing it resets the flag: whenever the user can
\* interact again the flag is down, so no later run (add, undo, generate,
\* select box) shows the dialog for the same toggle.
C9_NotificationShownOnce ==
    /\ dialog => (last = "rerun" /\ ~bingo /\ Len(marked) = 25 /\ LineFull(marked))
    /\ pc = "idle" => ~bingo
    /\ bingo => (pc \in {"rerun", "stopped"} /\ Len(marked) = 25 /\ LineFull(marked))

\* C9: the dialog has just been shown for a winning toggle and the flag is down
C9_Witness ==
    /\ dialog
    /\ last = "rerun"
    /\ ~bingo
    /\ pc = "idle"

\* C11: Generate Board leaves the choice list as it was: the same entries in
\* the same order, although the board's copy is shuffled and padded.
C11_GenerateKeepsChoiceList ==
    [][last' \in {"generate", "generate_over_marked"} => bingo_choices' = bingo_choices]_vars

\* C11: a board was generated whose order is not the list's, from a list that
\* needed padding
C11_Witness ==
    /\ last \in {"generate", "generate_over_marked"}
    /\ Len(bingo_choices) >= 2
    /\ PLACEHOLDER \in Range(bingo_board)
    /\ bingo_board # generate_board(bingo_choices)

\* the 24 cells other than the center hold each label as often as the list
\* does, and 24 - n placeholders, and nothing else
ListPlusPlaceholders(board, choices) ==
    /\ Len(board) = 25
    /\ \A x \in Range(choices) : CountIn(NonCenter(board), x) = CountIn(choices, x)
    /\ CountIn(NonCenter(board), PLACEHOLDER) = 24 - Len(choices)
    /\ Range(NonCenter(board)) \subseteq Range(choices) \cup {PLACEHOLDER}

\* C12 as stated: the 24 cells other than the center are a permutation of the
\* n labels of the list plus 24 - n placeholders, and a list of two labels
\* gives 21 placeholders.
C12_TwoLabelsGive21Placeholders ==
    last \in {"generate", "generate_over_marked"}
        => /\ ListPlusPlaceholders(bingo_board, bingo_choices)
           /\ Len(bingo_choices) = 2 => CountIn(bingo_board, PLACEHOLDER) = 21

\* C12 as amended: the 24 cells other than the center are a permutation of the
\* n labels of the list plus 24 - n placeholders, the board has 25 cells, and
\* a list of two labels gives 22 placeholders.
C12_BoardIsListPlusPlaceholders ==
    last \in {"generate", "generate_over_marked"}
        => /\ ListPlusPlaceholders(bingo_board, bingo_choices)
           /\ Len(bingo_choices) = 2 => CountIn(bingo_board, PLACEHOLDER) = 22

\* C12: a board was generated from a list of two different labels
C12_Witness ==
    /\ last \in {"generate", "generate_over_marked"}
    /\ Len(bingo_choices) = 2
    /\ bingo_choices[1] # bingo_choices[2]
    /\ CountIn(bingo_board, PLACEHOLDER) = 22

\* C13: an undo on a list that is not empty removes exactly the last entry and
\* leaves the entries before it and their order as they were; an undo on an
\* empty list raises nothing and leaves the list empty.
C13_UndoRemovesLast ==
    [][/\ last' = "undo"
          => /\ bingo_choices # <<>>
             /\ bingo_choices' = SubSeq(bingo_choices, 1, Len(bingo_choices) - 1)
       /\ last' = "undo_ignored" => (bingo_choices = <<>> /\ bingo_choices' = <<>>)
       /\ last' # "undo_error"]_vars

\* C13: an undo emptied the list and the Undo button it left on the page was
\* clicked again
C13_Witness ==
    /\ last = "undo_ignored"
    /\ bingo_choices = <<>>

\* C14: once a board exists an add or an undo leaves the board and the marked
\* state as they were, and the board changes only in a Generate Board run.
C14_AddUndoKeepBoard ==
    [][/\ (bingo_board # <<>> /\ last' \in {"add", "add_warning", "undo", "undo_ignored"})
          => (bingo_board' = bingo_board /\ marked' = marked)
       /\ bingo_board' # bingo_board => last' \in {"generate", "generate_over_marked"}]_vars

\* C14: a label was added while a board with a toggled cell exists
C14_Witness ==
    /\ last = "add"
    /\ bingo_board # <<>>
    /\ marked # generate_marked

\* C16: the win condition is evaluated after every toggle on the marked state
\* the toggle leaves: the toggle raises the flag if and only if that state has
\* a fully marked line (un-marking a cell beside a complete line raises it
\* again, a toggle that leaves no complete line raises nothing), and the run
\* that follows shows the notification exactly when the flag was raised.
C16_ToggleNotifiesIffLineFull ==
    /\ last \in {"toggle_on", "toggle_off"}
          => /\ winDetected = (IF LineFull(marked) THEN "True" ELSE "False")
             /\ bingo <=> LineFull(marked)
    /\ last = "rerun" => (dialog <=> LineFull(marked))

\* C16: a cell off the complete diagonal was un-marked and the win was raised
\* again
C16_Witness ==
    /\ last = "toggle_off"
    /\ bingo
    /\ LineFull(marked)
    /\ ~marked[4 + 1]

\* C17: a Generate Board run raises no notification and leaves a marked state
\* on which the win detector is false; counted from the last Generate Board,
\* no win is detected or notified before four toggles.
C17_NoWinBeforeFourToggles ==
    /\ last \in {"generate", "generate_over_marked"}
          => /\ ~bingo
             /\ ~dialog
             /\ winDetected = "none"
             /\ check_bingo(marked) = "False"
    /\ (winDetected = "True" \/ bingo \/ dialog) => toggles >= 4

\* C17: the fourth toggle since Generate Board completes the main diagonal
C17_Witness ==
    /\ last = "toggle_on"
    /\ winDetected = "True"
    /\ toggles = 4
    /\ marked = Vec(BoardCells, {0, 6, 12, 18, 24})

\* C18: whenever a board exists it has 25 entries, the marked state has 25
\* entries and the entry at index 12 of the board is the free-square label.
C18_BoardShape ==
    bingo_board # <<>>
        => /\ Len(bingo_board) = 25
           /\ Len(marked) = 25
           /\ bingo_board[12 + 1] = FREE_SQUARE

\* C18: a board built from a full list, then a toggle, an undo and an add
C18_Witness ==
    /\ bingo_board # <<>>
    /\ PLACEHOLDER \notin Range(bingo_board)
    /\ marked # generate_marked
    /\ last = "add"
    /\ Len(bingo_choices) = 23

====
